---- MODULE Spec2Model ----
(***************************************************************************)
(* A model of the dense Matrix class of src/src/matrix.cpp.                *)
(*                                                                         *)
(* The state is one Matrix object (the receiver: rows, cols, data) driven  *)
(* by a caller that invokes one member function per step.  The caller also *)
(* holds the value returned by the most recent call (ret), the exception   *)
(* that call threw (err), the call itself (call) and the Matrix it passed  *)
(* as the operand (arg).  touched records the index pairs (i, j) at which  *)
(* the call subscripted the backing storage directly (data[i][j]).         *)
(*                                                                         *)
(* Doubles are modelled by integers.  Indices are 0-based as in the code;  *)
(* the sequences that model std::vector are 1-based, so data[i][j] of the  *)
(* code is data[i + 1][j + 1] here.                                        *)
(***************************************************************************)
EXTENDS Integers, Sequences, FiniteSets, TLC

VARIABLES rows, cols, data, ret, err, call, arg, touched, crashed

vars == <<rows, cols, data, ret, err, call, arg, touched, crashed>>

\* Bounds of the model: the largest dimensions, the largest number of
\* elements and the largest magnitude of an element of a matrix the caller
\* constructs or keeps in the receiver.
MaxRows == 2
MaxCols == 2
MaxCells == 4
MaxVal == 1

Vals == (0 - MaxVal)..MaxVal
RowCounts == 0..MaxRows
ColCounts == 0..MaxCols
\* size_t arguments of the accessors: every valid index and one past the end.
RowIndices == 0..MaxRows
ColIndices == 0..MaxCols
Scalars == Vals

(***************************************************************************)
(* Matrix values and the constructors.                                     *)
(***************************************************************************)
\* Matrix::Matrix() : rows(0), cols(0) {}
Matrix0 == [rows |-> 0, cols |-> 0, data |-> <<>>]

\* Matrix::Matrix(size_t rows, size_t cols, double value)
Matrix3(r, c, value) ==
    [rows |-> r, cols |-> c, data |-> [i \in 1..r |-> [j \in 1..c |-> value]]]

\* Matrix::Matrix(size_t rows, size_t cols)
Matrix2(r, c) ==
    [rows |-> r, cols |-> c, data |-> [i \in 1..r |-> [j \in 1..c |-> 0]]]

\* Matrix::Matrix(const Matrix& other)
MatrixCopy(other) ==
    [rows |-> other.rows, cols |-> other.cols, data |-> other.data]

\* The receiver as a value.
Self == [rows |-> rows, cols |-> cols, data |-> data]

\* Matrix M lies within the bounds of the model: its dimensions, and the
\* magnitude of every element.
WithinBounds(M) ==
    /\ M.rows \in RowCounts
    /\ M.cols \in ColCounts
    /\ M.rows * M.cols <= MaxCells
    /\ \A i \in DOMAIN M.data : \A j \in DOMAIN M.data[i] : M.data[i][j] \in Vals

(***************************************************************************)
(* Return values and outcomes of a call.                                   *)
(***************************************************************************)
RetVoid == [kind |-> "void", val |-> 0, vec |-> <<>>, mat |-> Matrix0]
RetDouble(x) == [kind |-> "double", val |-> x, vec |-> <<>>, mat |-> Matrix0]
RetVector(v) == [kind |-> "vector", val |-> 0, vec |-> v, mat |-> Matrix0]
RetMatrix(M) == [kind |-> "matrix", val |-> 0, vec |-> <<>>, mat |-> M]

\* A call that returns normally, leaving the receiver as M.
Ok(M, r, t) ==
    [err |-> "none", self |-> M, ret |-> r, touched |-> t, crash |-> FALSE]

\* A call that throws exception e, leaving the receiver as M.
Throw(M, e, t) ==
    [err |-> e, self |-> M, ret |-> RetVoid, touched |-> t, crash |-> FALSE]

\* A call whose undefined behaviour terminates the process.
Crash(M, t) ==
    [err |-> "none", self |-> M, ret |-> RetVoid, touched |-> t, crash |-> TRUE]

\* The index pairs visited by "for i < r: for j < c".
LoopIdx(r, c) == (0..(r - 1)) \X (0..(c - 1))

(***************************************************************************)
(* Element access.                                                         *)
(***************************************************************************)
\* if (row >= rows || col >= cols) throw std::out_of_range
AtOutOfRangeOffByOne(M, row, col) == row + 1 >= M.rows \/ col >= M.cols
AtOutOfRange(M, row, col) == row >= M.rows \/ col >= M.cols

\* const double& Matrix::operator()(size_t row, size_t col) const
AtOp(M, row, col) ==
    IF AtOutOfRange(M, row, col)
    THEN Throw(M, "out_of_range", {})
    ELSE Ok(M, RetDouble(M.data[row + 1][col + 1]), {<<row, col>>})

\* double& Matrix::operator()(size_t row, size_t col), assigned through:
\* A(row, col) = value.
AtWriteOp(M, row, col, value) ==
    IF AtOutOfRange(M, row, col)
    THEN Throw(M, "out_of_range", {})
    ELSE Ok([M EXCEPT !.data[row + 1][col + 1] = value], RetVoid,
            {<<row, col>>})

(***************************************************************************)
(* Matrix operations returning a new Matrix.                               *)
(***************************************************************************)
\* if (rows != other.rows || cols != other.cols) throw std::invalid_argument
ShapeMismatch(M, other) == M.rows # other.rows \/ M.cols # other.cols

\* if (cols != other.rows) throw std::invalid_argument
MulMismatchRows(M, other) == M.rows # other.rows
MulMismatch(M, other) == M.cols # other.rows

\* The loop of operator+ on a result constructed as Matrix(rows, cols):
\* result(i, j) = data[i][j] + other(i, j) for i < rows, j < cols.  Both
\* checked accessors are in range, the shapes having been compared first.
AddLoop(M, other) ==
    [Matrix2(M.rows, M.cols) EXCEPT
        !.data = [i \in 1..M.rows |->
                    [j \in 1..M.cols |-> M.data[i][j] + other.data[i][j]]]]

\* result(i, j) = data[i][j] - other(i, j)
SubtractLoop(M, other) ==
    [Matrix2(M.rows, M.cols) EXCEPT
        !.data = [i \in 1..M.rows |->
                    [j \in 1..M.cols |-> M.data[i][j] - other.data[i][j]]]]

\* result(i, j) = data[i][j] * other(i, j)
HadamardLoop(M, other) ==
    [Matrix2(M.rows, M.cols) EXCEPT
        !.data = [i \in 1..M.rows |->
                    [j \in 1..M.cols |-> M.data[i][j] * other.data[i][j]]]]

\* Matrix Matrix::operator+(const Matrix& other) const
AddOp(M, other) ==
    IF ShapeMismatch(M, other)
    THEN Throw(M, "invalid_argument", {})
    ELSE Ok(M, RetMatrix(AddLoop(M, other)), LoopIdx(M.rows, M.cols))

\* Matrix Matrix::operator-(const Matrix& other) const
SubtractOp(M, other) ==
    IF ShapeMismatch(M, other)
    THEN Throw(M, "invalid_argument", {})
    ELSE Ok(M, RetMatrix(SubtractLoop(M, other)), LoopIdx(M.rows, M.cols))

\* Matrix Matrix::hadamard(const Matrix& other) const
HadamardOp(M, other) ==
    IF ShapeMismatch(M, other)
    THEN Throw(M, "invalid_argument", {})
    ELSE Ok(M, RetMatrix(HadamardLoop(M, other)), LoopIdx(M.rows, M.cols))

\* x << n on a 64-bit size_t.  Within the bounds of the model x * 2^n stays
\* far below 2^64, so no bit is shifted out.
ShiftLeft(x, n) == x * (2 ^ n)

\* for (size_t k = 0; k < cols; ++k) result(i, j) += data[i][k] * other(k, j);
RECURSIVE MulLoopK(_, _, _, _, _, _)
MulLoopK(M, other, result, i, j, k) ==
    IF k < M.cols
    THEN MulLoopK(M, other,
                  [result EXCEPT !.data[i + 1][j + 1] =
                       @ + M.data[i + 1][k + 1] * other.data[k + 1][j + 1]],
                  i, j, k + 1)
    ELSE result

\* for (size_t j = 0; j << other.cols; ++j): the condition is the value of
\* the shift, true when it is nonzero.
RECURSIVE MulLoopJ(_, _, _, _, _)
MulLoopJ(M, other, result, i, j) ==
    IF ShiftLeft(j, other.cols) # 0
    THEN MulLoopJ(M, other, MulLoopK(M, other, result, i, j, 0), i, j + 1)
    ELSE result

\* for (size_t i = 0; i << rows; ++i)
RECURSIVE MulLoopI(_, _, _, _)
MulLoopI(M, other, result, i) ==
    IF ShiftLeft(i, M.rows) # 0
    THEN MulLoopI(M, other, MulLoopJ(M, other, result, i, 0), i + 1)
    ELSE result

\* Matrix Matrix::operator*(const Matrix& other) const
MultiplyOp(M, other) ==
    IF MulMismatch(M, other)
    THEN Throw(M, "invalid_argument", {})
    ELSE Ok(M, RetMatrix(MulLoopI(M, other, Matrix2(M.rows, other.cols), 0)), {})

\* Matrix Matrix::operator*(double scalar) const
ScaleOp(M, scalar) ==
    Ok(M,
       RetMatrix([Matrix2(M.rows, M.cols) EXCEPT
           !.data = [i \in 1..M.rows |->
                       [j \in 1..M.cols |-> M.data[i][j] * scalar]]]),
       LoopIdx(M.rows, M.cols))

\* 1.0 / scalar, for the scalars whose reciprocal is a value of the model.
HasReciprocal(scalar) == \E q \in Scalars : q * scalar = 1
Reciprocal(scalar) == CHOOSE q \in Scalars : q * scalar = 1

\* Matrix Matrix::operator/(double scalar) const
DivideOp(M, scalar) ==
    IF scalar = 0
    THEN Throw(M, "invalid_argument", {})
    ELSE ScaleOp(M, Reciprocal(scalar))

\* Matrix Matrix::transpose() const
TransposeOp(M) ==
    Ok(M,
       RetMatrix([Matrix2(M.cols, M.rows) EXCEPT
           !.data = [j \in 1..M.cols |-> [i \in 1..M.rows |-> M.data[i][j]]]]),
       LoopIdx(M.rows, M.cols))

(***************************************************************************)
(* Assignment and the in-place operators.                                  *)
(***************************************************************************)
\* Matrix& Matrix::operator=(const Matrix& other); sameObject is this == &other.
AssignOp(M, other, sameObject) ==
    IF sameObject
    THEN Ok(M, RetVoid, {})
    ELSE Ok([rows |-> other.rows, cols |-> other.cols, data |-> other.data],
            RetVoid, {})

\* *this = *this + other: the sum is evaluated first, and an exception
\* thrown by it leaves the assignment unexecuted.
AddInPlaceOp(M, other) ==
    LET sum == AddOp(M, other)
    IN  IF sum.err # "none"
        THEN sum
        ELSE Ok(AssignOp(M, sum.ret.mat, FALSE).self, RetVoid, sum.touched)

\* *this = *this - other
SubtractInPlaceOp(M, other) ==
    LET diff == SubtractOp(M, other)
    IN  IF diff.err # "none"
        THEN diff
        ELSE Ok(AssignOp(M, diff.ret.mat, FALSE).self, RetVoid, diff.touched)

\* Matrix& Matrix::operator*=(double scalar)
ScaleInPlaceOp(M, scalar) ==
    Ok([M EXCEPT !.data = [i \in 1..M.rows |->
                             [j \in 1..M.cols |-> M.data[i][j] * scalar]]],
       RetVoid, LoopIdx(M.rows, M.cols))

(***************************************************************************)
(* Initialization routines.                                                *)
(***************************************************************************)
\* The values std::uniform_real_distribution<double>(min, max) can produce,
\* on the integer grid of the model.
UniformDraws(min, max) == min..max

\* The values std::normal_distribution<double> can produce: every real, so
\* every value of the model.
NormalDraws == Vals

\* The receiver after the loop body data[i][j] = <drawn value> has run at
\* every index pair of idx that lies inside the storage, f giving the draws.
Drawn(M, inside, f) ==
    [M EXCEPT !.data = [i \in 1..M.rows |->
                          [j \in 1..M.cols |->
                             IF <<i - 1, j - 1>> \in inside
                             THEN f[<<i - 1, j - 1>>]
                             ELSE M.data[i][j]]]]

\* void Matrix::randomize(double min, double max): the set of outcomes.
\* The inner loop runs j over [0, rows).  A subscript data[i][j] with
\* j >= cols writes past the end of row i, which is undefined behaviour:
\* the process either dies or the write lands outside the elements of the
\* row and the loop carries on.  (A stray write that lands on another
\* element of this matrix stores a value of the same distribution there,
\* which yields no further outcome.)
RandomizeOutcomes(M, min, max) ==
    LET idx == LoopIdx(M.rows, M.rows)
        inside == {p \in idx : p[2] < M.cols}
        done == {Ok(Drawn(M, inside, f), RetVoid, idx) :
                    f \in [inside -> UniformDraws(min, max)]}
    IN  IF idx = inside THEN done ELSE done \cup {Crash(M, idx)}

\* floor(sqrt(n)) for a natural number n.
ISqrt(n) == CHOOSE k \in 0..n : k * k <= n /\ (k + 1) * (k + 1) > n

\* double limit = std::sqrt(6.0 / (rows + cols)), rounded down to the grid.
XavierLimit(M) == ISqrt(6 \div (M.rows + M.cols))

\* void Matrix::xavierInit().  For a 0x0 matrix the limit is infinite and
\* randomize draws nothing, its loop being empty.
XavierOutcomes(M) ==
    IF M.rows + M.cols = 0
    THEN {Ok(M, RetVoid, {})}
    ELSE RandomizeOutcomes(M, 0 - XavierLimit(M), XavierLimit(M))

\* void Matrix::heInit()
HeInitOutcomes(M) ==
    LET idx == LoopIdx(M.rows, M.cols)
    IN  {Ok(Drawn(M, idx, f), RetVoid, idx) : f \in [idx -> NormalDraws]}

\* void Matrix::fill(double value)
FillOp(M, value) ==
    Ok([M EXCEPT !.data = [i \in 1..M.rows |-> [j \in 1..M.cols |-> value]]],
       RetVoid, LoopIdx(M.rows, M.cols))

\* void Matrix::identity()
IdentityFillBeforeCheck(M) ==
    IF M.rows # M.cols
    THEN Throw(FillOp(M, 0).self, "invalid_argument", LoopIdx(M.rows, M.cols))
    ELSE Ok([M EXCEPT !.data = [i \in 1..M.rows |->
                [j \in 1..M.cols |-> IF i = j THEN 1 ELSE 0]]],
            RetVoid, LoopIdx(M.rows, M.cols))
IdentityWithoutFill(M) ==
    IF M.rows # M.cols
    THEN Throw(M, "invalid_argument", {})
    ELSE Ok([M EXCEPT !.data = [i \in 1..M.rows |->
                [j \in 1..M.cols |-> IF i = j THEN 1 ELSE M.data[i][j]]]],
            RetVoid, {<<i, i>> : i \in 0..(M.rows - 1)})
IdentityOp(M) ==
    IF M.rows # M.cols
    THEN Throw(M, "invalid_argument", {})
    ELSE LET filled == FillOp(M, 0)
         IN  Ok([filled.self EXCEPT
                    !.data = [i \in 1..M.rows |-> [@[i] EXCEPT ![i] = 1]]],
                RetVoid, filled.touched)

(***************************************************************************)
(* Utility methods.                                                        *)
(***************************************************************************)
\* std::vector<double> Matrix::getRow(size_t row) const
GetRowOp(M, row) ==
    IF row >= M.rows
    THEN Throw(M, "out_of_range", {})
    ELSE Ok(M, RetVector(M.data[row + 1]), {})

\* Matrix Matrix::getCol(size_t col) const
GetColOp(M, col) ==
    IF col >= M.cols
    THEN Throw(M, "out_of_range", {})
    ELSE Ok(M,
            RetMatrix([Matrix2(M.rows, 1) EXCEPT
                !.data = [i \in 1..M.rows |-> <<M.data[i][col + 1]>>]]),
            {<<i, col>> : i \in 0..(M.rows - 1)})

\* The loop of setCol: data[i][col] = colMatrix(i, 0) for i < rows.
SetColDataFirstValue(M, col, colMatrix) ==
    [i \in 1..M.rows |-> [M.data[i] EXCEPT ![col + 1] = colMatrix.data[1][1]]]
SetColData(M, col, colMatrix) ==
    [i \in 1..M.rows |-> [M.data[i] EXCEPT ![col + 1] = colMatrix.data[i][1]]]

\* void Matrix::setCol(size_t col, const Matrix& colMatrix)
SetColOp(M, col, colMatrix) ==
    IF col >= M.cols
    THEN Throw(M, "out_of_range", {})
    ELSE IF colMatrix.cols # 1 \/ colMatrix.rows # M.rows
         THEN Throw(M, "invalid_argument", {})
         ELSE Ok([M EXCEPT !.data = SetColData(M, col, colMatrix)], RetVoid,
                 {<<i, col>> : i \in 0..(M.rows - 1)})

\* std::vector::resize(n, value) on a vector v: the first Min(Len(v), n)
\* elements are kept, the elements appended are copies of value.
VectorResize(v, n, value) ==
    [k \in 1..n |-> IF k <= Len(v) THEN v[k] ELSE value]

\* void Matrix::resize(size_t newRows, size_t newCols)
ResizeWithoutClear(M, newRows, newCols) ==
    Ok([rows |-> newRows, cols |-> newCols,
        data |-> VectorResize(M.data, newRows, [j \in 1..newCols |-> 0])],
       RetVoid, {})
ResizeKeepingContent(M, newRows, newCols) ==
    Ok([rows |-> newRows, cols |-> newCols,
        data |-> [i \in 1..newRows |->
                    VectorResize(IF i <= Len(M.data) THEN M.data[i] ELSE <<>>,
                                 newCols, 0)]],
       RetVoid, {})
ResizeOp(M, newRows, newCols) ==
    Ok([rows |-> newRows, cols |-> newCols,
        data |-> VectorResize(<<>>, newRows, [j \in 1..newCols |-> 0])],
       RetVoid, {})

(***************************************************************************)
(* The caller.                                                             *)
(*                                                                         *)
(* The caller executes statements.  A statement is one call on the         *)
(* receiver, or two when the Matrix returned by the first is passed as the *)
(* operand of the second, as in A.setCol(c, A.getCol(c)) or A = A + B.     *)
(* EndStatement is the end of the full expression: the returned temporary  *)
(* is destroyed and a thrown exception has been handled.                   *)
(***************************************************************************)
\* The call just made: the member function, its size_t arguments (p, q),
\* its double argument (v) and where its Matrix operand came from (src).
Call(op, p, q, v, src) == [v |-> v, q |-> q, p |-> p, op |-> op, src |-> src]

NoCall == Call("none", 0, 0, 0, "none")

\* Matrices the caller builds with the constructors.
Shapes == {s \in RowCounts \X ColCounts : s[1] * s[2] <= MaxCells}

Constructed ==
    {Matrix0}
    \cup {Matrix2(s[1], s[2]) : s \in Shapes}
    \cup {Matrix3(s[1], s[2], value) : s \in Shapes, value \in Vals}

\* The Matrix operands the caller can pass at the start of a statement: a
\* constructed matrix, a copy of the receiver, or the receiver itself.
Operands ==
    {[src |-> "temp", m |-> o] : o \in Constructed}
    \cup {[src |-> "copy", m |-> MatrixCopy(Self)]}
    \cup {[src |-> "self", m |-> Self]}

\* No statement is in progress: the next call starts one.
Idle == ~crashed /\ call.op = "none"

\* The operands of a call that can also continue a statement: at the start
\* of a statement as above, after a call that returned a Matrix that matrix.
OperandsOrRet ==
    IF Idle THEN Operands
    ELSE IF ~crashed /\ ret.kind = "matrix" THEN {[src |-> "ret", m |-> ret.mat]}
    ELSE {}

\* The state after a call c with outcome out.  The receiver is kept within
\* the bounds of the model.
Apply(c, operand, out) ==
    /\ WithinBounds(out.self)
    /\ rows' = out.self.rows
    /\ cols' = out.self.cols
    /\ data' = out.self.data
    /\ ret' = out.ret
    /\ err' = out.err
    /\ call' = c
    /\ arg' = operand
    /\ touched' = out.touched
    /\ crashed' = out.crash

\* The receiver has been constructed by one of the constructors.
Init ==
    /\ \E M \in Constructed :
          /\ rows = M.rows
          /\ cols = M.cols
          /\ data = M.data
    /\ ret = RetVoid
    /\ err = "none"
    /\ call = NoCall
    /\ arg = Matrix0
    /\ touched = {}
    /\ crashed = FALSE

EndStatement ==
    /\ ~crashed
    /\ call.op # "none"
    /\ ret' = RetVoid
    /\ err' = "none"
    /\ call' = NoCall
    /\ arg' = Matrix0
    /\ touched' = {}
    /\ UNCHANGED <<rows, cols, data, crashed>>

Assign ==
    \E o \in OperandsOrRet :
        Apply(Call("assign", 0, 0, 0, o.src), o.m,
              AssignOp(Self, o.m, o.src = "self"))

At ==
    /\ Idle
    /\ \E row \in RowIndices, col \in ColIndices :
           Apply(Call("at", row, col, 0, "none"), Matrix0, AtOp(Self, row, col))

AtWrite ==
    /\ Idle
    /\ \E row \in RowIndices, col \in ColIndices, value \in Vals :
           Apply(Call("atWrite", row, col, value, "none"), Matrix0,
                 AtWriteOp(Self, row, col, value))

Add ==
    /\ Idle
    /\ \E o \in Operands :
           Apply(Call("add", 0, 0, 0, o.src), o.m, AddOp(Self, o.m))

Subtract ==
    /\ Idle
    /\ \E o \in Operands :
           Apply(Call("subtract", 0, 0, 0, o.src), o.m, SubtractOp(Self, o.m))

Multiply ==
    /\ Idle
    /\ \E o \in Operands :
           Apply(Call("multiply", 0, 0, 0, o.src), o.m, MultiplyOp(Self, o.m))

Hadamard ==
    /\ Idle
    /\ \E o \in Operands :
           Apply(Call("hadamard", 0, 0, 0, o.src), o.m, HadamardOp(Self, o.m))

Scale ==
    /\ Idle
    /\ \E scalar \in Scalars :
           Apply(Call("scale", 0, 0, scalar, "none"), Matrix0, ScaleOp(Self, scalar))

Divide ==
    /\ Idle
    /\ \E scalar \in Scalars :
           /\ scalar = 0 \/ HasReciprocal(scalar)
           /\ Apply(Call("divide", 0, 0, scalar, "none"), Matrix0,
                    DivideOp(Self, scalar))

Transpose ==
    /\ Idle
    /\ Apply(Call("transpose", 0, 0, 0, "none"), Matrix0, TransposeOp(Self))

AddInPlace ==
    /\ Idle
    /\ \E o \in Operands :
           Apply(Call("addInPlace", 0, 0, 0, o.src), o.m, AddInPlaceOp(Self, o.m))

SubtractInPlace ==
    /\ Idle
    /\ \E o \in Operands :
           Apply(Call("subtractInPlace", 0, 0, 0, o.src), o.m,
                 SubtractInPlaceOp(Self, o.m))

ScaleInPlace ==
    /\ Idle
    /\ \E scalar \in Scalars :
           Apply(Call("scaleInPlace", 0, 0, scalar, "none"), Matrix0,
                 ScaleInPlaceOp(Self, scalar))

\* The caller respects the precondition min <= max of the distribution.
\* The call records min and max in its double arguments p and q.
Randomize ==
    /\ Idle
    /\ \E min \in Vals, max \in Vals :
           /\ min <= max
           /\ \E out \in RandomizeOutcomes(Self, min, max) :
                 Apply(Call("randomize", min, max, 0, "none"), Matrix0, out)

XavierInit ==
    /\ Idle
    /\ \E out \in XavierOutcomes(Self) :
           Apply(Call("xavierInit", 0, 0, 0, "none"), Matrix0, out)

HeInit ==
    /\ Idle
    /\ \E out \in HeInitOutcomes(Self) :
           Apply(Call("heInit", 0, 0, 0, "none"), Matrix0, out)

Fill ==
    /\ Idle
    /\ \E value \in Vals :
           Apply(Call("fill", 0, 0, value, "none"), Matrix0, FillOp(Self, value))

Identity ==
    /\ Idle
    /\ Apply(Call("identity", 0, 0, 0, "none"), Matrix0, IdentityOp(Self))

GetRow ==
    /\ Idle
    /\ \E row \in RowIndices :
           Apply(Call("getRow", row, 0, 0, "none"), Matrix0, GetRowOp(Self, row))

GetCol ==
    /\ Idle
    /\ \E col \in ColIndices :
           Apply(Call("getCol", 0, col, 0, "none"), Matrix0, GetColOp(Self, col))

SetCol ==
    \E col \in ColIndices, o \in OperandsOrRet :
        Apply(Call("setCol", 0, col, 0, o.src), o.m, SetColOp(Self, col, o.m))

Resize ==
    /\ Idle
    /\ \E newRows \in RowCounts, newCols \in ColCounts :
           Apply(Call("resize", newRows, newCols, 0, "none"), Matrix0,
                 ResizeOp(Self, newRows, newCols))

Next ==
    \/ EndStatement
    \/ Assign
    \/ At
    \/ AtWrite
    \/ Add
    \/ Subtract
    \/ Multiply
    \/ Hadamard
    \/ Scale
    \/ Divide
    \/ Transpose
    \/ AddInPlace
    \/ SubtractInPlace
    \/ ScaleInPlace
    \/ Randomize
    \/ XavierInit
    \/ HeInit
    \/ Fill
    \/ Identity
    \/ GetRow
    \/ GetCol
    \/ SetCol
    \/ Resize

Spec == Init /\ [][Next]_vars

(***************************************************************************)
(* Properties.                                                             *)
(***************************************************************************)
\* C1: when multiply returns, the result has shape rowCount x other.colCount
\* and its element (i, j) is the dot product of row i of the receiver and
\* column j of the operand.
MultiplyIsDotProduct ==
    (call.op = "multiply" /\ err = "none") =>
        LET RECURSIVE Dot(_, _, _)
            Dot(i, j, k) ==
                IF k = 0 THEN 0
                ELSE Dot(i, j, k - 1) + data[i][k] * arg.data[k][j]
        IN  /\ ret.kind = "matrix"
            /\ ret.mat.rows = rows
            /\ ret.mat.cols = arg.cols
            /\ \A i \in 1..rows : \A j \in 1..arg.cols :
                  ret.mat.data[i][j] = Dot(i, j, cols)

\* C2: after randomize(min, max) has returned, every element of the
\* receiver lies in [min, max].
RandomizeAssignsAll ==
    (call.op = "randomize" /\ ~crashed) =>
        \A i \in 1..rows : \A j \in 1..cols :
            call.p <= data[i][j] /\ data[i][j] <= call.q

\* C3: a call that throws leaves rowCount, colCount and every element of
\* the receiver as they were before the call.
ErrorLeavesReceiver ==
    [][err' # "none" => (rows' = rows /\ cols' = cols /\ data' = data)]_vars

ErrorLeavesReceiverWitness ==
    /\ call.op = "setCol"
    /\ err = "invalid_argument"
    /\ rows = 2
    /\ cols = 2
    /\ arg.cols = 1
    /\ arg.rows = 1
    /\ \E i \in 1..rows : data[i][call.q + 1] # arg.data[1][1]

DimensionCheck ==
    /\ call.op \in {"add", "subtract", "hadamard"} =>
          IF rows # arg.rows \/ cols # arg.cols
          THEN err = "invalid_argument"
          ELSE err = "none" /\ ret.kind = "matrix"
    /\ call.op = "multiply" =>
          IF cols # arg.rows
          THEN err = "invalid_argument"
          ELSE err = "none" /\ ret.kind = "matrix"

DimensionCheckWitness ==
    /\ call.op = "multiply"
    /\ err = "none"
    /\ rows = 2
    /\ cols = 1
    /\ arg.rows = 1
    /\ arg.cols = 2

\* C6: at(row, col) throws out_of_range exactly when row >= rowCount or
\* col >= colCount; otherwise the read form returns the element stored at
\* (row, col) and the write form stores into that element and no other.
AtContract ==
    [][LET outside == call'.p >= rows \/ call'.q >= cols
       IN  /\ call'.op = "at" =>
                IF outside
                THEN err' = "out_of_range"
                ELSE /\ err' = "none"
                     /\ ret' = RetDouble(data[call'.p + 1][call'.q + 1])
                     /\ rows' = rows /\ cols' = cols /\ data' = data
           /\ call'.op = "atWrite" =>
                IF outside
                THEN err' = "out_of_range"
                ELSE /\ err' = "none"
                     /\ rows' = rows /\ cols' = cols
                     /\ data' = [data EXCEPT
                                   ![call'.p + 1][call'.q + 1] = call'.v]
      ]_vars

AtContractWitness ==
    /\ call.op = "at"
    /\ err = "none"
    /\ rows = 2
    /\ cols = 2
    /\ call.p = 1
    /\ call.q = 1
    /\ ret.val = data[2][2]
    /\ data[2][2] # data[1][1]

\* C7: a successful setCol(col, colMatrix) stores colMatrix[i][0] at
\* (i, col) for every row i and changes nothing else; and setCol(col,
\* getCol(col)) leaves the receiver as it was.
SetColFrame ==
    [][(call'.op = "setCol" /\ err' = "none") =>
          /\ rows' = rows
          /\ cols' = cols
          /\ DOMAIN data' = DOMAIN data
          /\ \A i \in 1..rows : \A j \in 1..cols :
                data'[i][j] = IF j = call'.q + 1
                              THEN arg'.data[i][1]
                              ELSE data[i][j]
          /\ (call'.src = "ret" /\ call.op = "getCol" /\ call.q = call'.q) =>
                data' = data
      ]_vars

SetColFrameWitness ==
    /\ call.op = "setCol"
    /\ call.src = "ret"
    /\ err = "none"
    /\ rows = 2
    /\ cols = 2
    /\ arg.data = << <<data[1][call.q + 1]>>, <<data[2][call.q + 1]>> >>
    /\ data[1][call.q + 1] # data[2][call.q + 1]

\* C8: resize(newRows, newCols) returns normally and leaves the receiver
\* newRows x newCols with every element 0.0.
ResizeZeroes ==
    [][call'.op = "resize" =>
          /\ err' = "none"
          /\ rows' = call'.p
          /\ cols' = call'.q
          /\ data' = [i \in 1..call'.p |-> [j \in 1..call'.q |-> 0]]
      ]_vars

ResizeZeroesWitness ==
    /\ call.op = "resize"
    /\ call.p = 2
    /\ call.q = 2
    /\ data = << <<0, 0>>, <<0, 0>> >>

\* C9: identity() throws invalid_argument exactly when rowCount differs
\* from colCount; on a square matrix it keeps the shape and leaves 1.0 on
\* the diagonal and 0.0 everywhere else.
IdentityContract ==
    [][call'.op = "identity" =>
          IF rows # cols
          THEN err' = "invalid_argument"
          ELSE /\ err' = "none"
               /\ rows' = rows
               /\ cols' = cols
               /\ data' = [i \in 1..rows |->
                             [j \in 1..cols |-> IF i = j THEN 1 ELSE 0]]
      ]_vars

IdentityContractWitness ==
    /\ call.op = "identity"
    /\ err = "none"
    /\ rows = 2
    /\ data = << <<1, 0>>, <<0, 1>> >>

\* C10: randomize and xavierInit subscript the backing storage only at
\* index pairs (i, j) with i < rowCount and j < colCount.
RandomizeInBounds ==
    call.op \in {"randomize", "xavierInit"} =>
        \A p \in touched : p[1] < rows /\ p[2] < cols

====
